---- MODULE Spec2Model ----
(***************************************************************************)
(* Layout model of the two PDF report generators of gyomukanri:            *)
(*   AccidentReportGenerator.generate       (accident_report_generator.py) *)
(*   HiyariHattoGenerator.generate_report   (hiyari_hatto_generator.py)    *)
(*                                                                         *)
(* Lengths are integers in the unit u = 1/396000 mm = 1/139700 pt, so that *)
(* every millimetre constant given to a tenth, every point constant given  *)
(* to a hundredth and every division by 11 (checklist spacing) is exact.   *)
(* Text is given by its number of full-width characters; a paragraph wraps *)
(* at floor(width / font size) characters per line and is                  *)
(* lines * leading high, as ReportLab lays out CJK text.                   *)
(***************************************************************************)
EXTENDS Integers, Sequences, FiniteSets, TLC

\* ---------------------------------------------------------------- units
mm == 396000
pt == 139700

\* n tenths of a millimetre, n hundredths of a point
Mm10(n) == n * (mm \div 10)
Pt100(n) == n * (pt \div 100)

\* floor(a * b / c) without leaving 32 bits
MulDiv(a, b, c) == (a \div c) * b + ((a % c) * b) \div c

\* px_to_mm: px_value * 0.264583 * mm
px_to_mm(px_value) == MulDiv(px_value * 264583, mm \div 1000, 1000)

Max(a, b) == IF a >= b THEN a ELSE b
Min(a, b) == IF a <= b THEN a ELSE b
CeilDiv(a, b) == (a + b - 1) \div b
Percent(w, p) == (w \div 100) * p

\* --------------------------------------------------------------- bounds
ShortLen == 20
MediumLen == 150
NarrativeCap == 2000
MaxInstances == 2
FirstYear == 2024
LastYear == 2025
MaxClock == 2
MaxRenders == 2
MaxTextLen == 6
MaxSubjectLen == 4
MaxNames == 3
MaxSubmissions == 4
MaxFileCalls == 3
MaxUsers == 3
MaxIdsLen == 2

\* ------------------------------------------------------------ constants
NumItems == 12
page_width == 210 * mm
page_height == 297 * mm

\* AccidentReportGenerator.__init__
acc_margin == 15 * mm
\* HiyariHattoGenerator.__init__
margin_top == 20 * mm
margin_bottom == 20 * mm
margin_left == 15 * mm
margin_right == 15 * mm

acc_content_width == page_width - 2 * acc_margin
acc_content_height == page_height - 2 * acc_margin
acc_start_y == page_height - acc_margin
hiy_content_width == page_width - margin_left - margin_right
hiy_start_y == page_height - margin_top

\* ------------------------------------------------------- paragraph model
\* Number of lines a text of n full-width characters wraps into.
WrappedLines(n, width, font_size) ==
    IF n = 0 THEN 0 ELSE CeilDiv(n, Max(1, width \div font_size))

\* ---------------------------------------------------------------- state
\* One render (generate / generate_report) of one record.
VARIABLES gen, data, pc, current_y, ys, rows, checklist, alloc,
          stagesDone, saved, result, pages

\* Font resolution (__init__): the font files of the machine, the
\* process-wide pdfmetrics registry and the generators constructed so far.
VARIABLES fontenv, registry, reg_writes, instances

\* Date handling: the wall clock, the value passed as the date, the results.
VARIABLES clock, date_arg, date_outs

\* A call with a typed data mapping (absent fields, malformed selections).
VARIABLES call, outcome

\* draw_vertical_text: its arguments and the characters drawn so far.
VARIABLES vtext, vchars
\* The form's session state and temporary files (app.py)
VARIABLES session, tmpfiles, submissions, renders, last_block
\* One HiyariHattoGenerator instance and its generate_report calls
VARIABLES init_filename, self_filename, file_calls
\* The stored user master of DataManager
VARIABLES master, master_before, user_ids

layoutVars == <<gen, data, pc, current_y, ys, rows, checklist, alloc,
                stagesDone, saved, result, pages>>
fontVars == <<fontenv, registry, reg_writes, instances>>
dateVars == <<clock, date_arg, date_outs>>
inputVars == <<call, outcome>>
vtextVars == <<vtext, vchars>>
appVars == <<session, tmpfiles, submissions, renders, last_block>>
fileVars == <<init_filename, self_filename, file_calls>>
dmVars == <<master, master_before, user_ids>>

\* The variables a render does not touch.
others == <<fontVars, dateVars, inputVars, vtextVars, appVars, fileVars, dmVars>>

vars == <<layoutVars, fontVars, dateVars, inputVars, vtextVars, appVars, fileVars, dmVars>>

\* The components that a specification does not exercise stay idle.
FontIdle == fontenv = "idle" /\ registry = {} /\ reg_writes = 0 /\ instances = <<>>
DateIdle == clock = 0 /\ date_arg = "idle" /\ date_outs = <<>>
InputIdle == call = "idle" /\ outcome = "idle"
VtextIdle == vtext = "idle" /\ vchars = <<>>
AppIdle ==
    /\ session = "idle" /\ tmpfiles = 0 /\ submissions = 0
    /\ renders = 0 /\ last_block = "idle"
FileIdle == init_filename = "idle" /\ self_filename = "idle" /\ file_calls = <<>>
DmIdle == master = <<>> /\ master_before = <<>> /\ user_ids = <<>>
RestIdle == AppIdle /\ FileIdle /\ DmIdle
LayoutIdle ==
    /\ gen = "idle" /\ data = "idle" /\ pc = "idle" /\ current_y = 0 /\ ys = {}
    /\ rows = {} /\ checklist = "idle" /\ alloc = "idle" /\ stagesDone = <<>>
    /\ saved = 0 /\ result = "idle" /\ pages = 0

Generators == {"accident", "hiyari"}

AccOrder == <<"begin", "header", "info1", "info2", "body", "footer", "save">>
HiyOrder == <<"begin", "header", "summary", "cause", "countermeasure", "save">>
StageOrder(g) == IF g = "accident" THEN AccOrder ELSE HiyOrder

Blocks == {"header", "info1", "info2", "body", "footer",
           "summary", "cause", "countermeasure", "save"}

\* ---------------------------------------------------------------- input
\* The data mapping: every text field by its length in characters,
\* cause_indices as the set of selected items, and bad as the block whose
\* field cannot be processed (the block raises), "none" for a clean record.
TextLens == {0, ShortLen, MediumLen, NarrativeCap}

BaseData ==
    [report_content |-> 0, reporter_name |-> 0, location |-> 0,
     subject_name |-> 0, situation |-> 0, cause |-> 0, countermeasure |-> 0,
     others |-> 0, details |-> 0, context |-> 0,
     cause_indices |-> {}, bad |-> "none"]

SomeSelections == {{}, {1, 6, 12}}

InfoInputs ==
    {[BaseData EXCEPT !.report_content = a, !.reporter_name = b,
                      !.location = c, !.subject_name = d,
                      !.cause_indices = s] :
        a \in TextLens, b \in TextLens, c \in TextLens, d \in TextLens,
        s \in SomeSelections}

NarrativeInputs ==
    {[BaseData EXCEPT !.situation = a, !.cause = b, !.countermeasure = c,
                      !.others = d, !.details = e, !.context = f,
                      !.location = g, !.cause_indices = {1, 6, 12}] :
        a \in {0, NarrativeCap}, b \in {0, NarrativeCap},
        c \in {0, NarrativeCap}, d \in {0, NarrativeCap},
        e \in {0, NarrativeCap}, f \in {0, NarrativeCap},
        g \in {0, NarrativeCap}}

SelectionInputs ==
    {[BaseData EXCEPT !.cause_indices = s] : s \in SUBSET (1..NumItems)}

BadInputs ==
    {[BaseData EXCEPT !.bad = b, !.cause_indices = s] :
        b \in Blocks, s \in SomeSelections}

Inputs == InfoInputs \cup NarrativeInputs \cup SelectionInputs \cup BadInputs

NoChecklist ==
    [drawn |-> FALSE, band_top |-> 0, band_bottom |-> 0,
     first_item_y |-> 0, last_item_y |-> 0, item_y |-> <<>>, filled |-> {}]

NoAlloc == [done |-> FALSE, avail |-> 0, target |-> 0, minimum |-> 0, actual |-> 0]

\* State after construction of a generator, before generate is called.
Init ==
    /\ gen \in Generators
    /\ data \in Inputs
    /\ data.bad \in {"none"} \cup {StageOrder(gen)[k] : k \in 2..Len(StageOrder(gen))}
    /\ pc = "begin"
    /\ current_y = 0
    /\ ys = {}
    /\ rows = {}
    /\ checklist = NoChecklist
    /\ alloc = NoAlloc
    /\ stagesDone = <<>>
    /\ saved = 0
    /\ result = "none"
    /\ pages = 0
    /\ FontIdle /\ DateIdle /\ InputIdle /\ VtextIdle /\ RestIdle

\* ------------------------------------------------------------- pages
\* PageBreaks as a document template would do it: a table that reaches below
\* the page moves to a new page
PageBreaksWhenFull(table_y) == IF table_y < 0 THEN 1 ELSE 0

\* Pages started by Table.drawOn(c, x, table_y): drawOn draws on the canvas's
\* current page at whatever y it is given; neither method calls showPage.
PageBreaks(table_y) == 0

\* ------------------------------------------------- AccidentReportGenerator
\* canvas.Canvas(self.filename), margins, current_y = start_y
AccBegin ==
    /\ gen = "accident" /\ pc = "begin"
    /\ current_y' = acc_start_y
    /\ ys' = ys \cup {acc_start_y}
    /\ pc' = "header"
    /\ stagesDone' = Append(stagesDone, "begin")
    /\ UNCHANGED <<others, pages, gen, data, rows, checklist, alloc, saved, result>>

\* header: title, facility table (fixed 50px row), manager cell, rule
AccHeader ==
    /\ gen = "accident" /\ pc = "header" /\ data.bad # "header"
    /\ LET title_y == current_y - 10 * mm
           header_right_h == px_to_mm(50)
           header_right_y == current_y - header_right_h
           manager_cell_height == header_right_h - 2 * pt
           manager_label_y == header_right_y + manager_cell_height - 6 * pt
           stamp_y == header_right_y + 5 * pt
           line_y == current_y - header_right_h - 2 * mm
       IN /\ current_y' = line_y - 1 * mm
          /\ ys' = ys \cup {title_y, header_right_y, manager_label_y,
                            stamp_y, line_y, line_y - 1 * mm}
          /\ pages' = pages + PageBreaks(header_right_y)
    /\ pc' = "info1"
    /\ stagesDone' = Append(stagesDone, "header")
    /\ UNCHANGED <<others, gen, data, rows, checklist, alloc, saved, result>>

\* Auto-sized row of the first info table: the tallest of its three cells
\* (label line + wrapped text, leading 13.86) plus 6pt padding above and below.
InfoRow1Height(d) ==
    LET w_content == Percent(acc_content_width, 35) - 12 * pt
        w_reporter == Percent(acc_content_width, 30) - 12 * pt
        n_content == 1 + WrappedLines(d.report_content, w_content, 11 * pt)
        n_reporter == 1 + WrappedLines(d.reporter_name, w_reporter, 11 * pt)
        n_date == 2
    IN Max(Max(n_content, n_reporter), n_date) * Pt100(1386) + 12 * pt

\* Auto-sized row of the second info table: date/time cell (4 lines),
\* location, and subject names (10pt text on a 12pt leading).
InfoRow2Height(d) ==
    LET w == Percent(acc_content_width, 30) - 12 * pt
        h_datetime == 4 * Pt100(1386)
        h_location == (1 + WrappedLines(d.location, w, 11 * pt)) * Pt100(1386)
        h_subject == (1 + WrappedLines(d.subject_name, w, 10 * pt)) * 12 * pt
    IN Max(Max(h_datetime, h_location), h_subject) + 12 * pt

AccInfoRow1 ==
    /\ gen = "accident" /\ pc = "info1" /\ data.bad # "info1"
    /\ LET info_row1_h == InfoRow1Height(data)
       IN /\ current_y' = current_y - (info_row1_h + 2 * mm)
          /\ ys' = ys \cup {current_y - info_row1_h,
                            current_y - (info_row1_h + 2 * mm)}
          /\ pages' = pages + PageBreaks(current_y - info_row1_h)
    /\ pc' = "info2"
    /\ stagesDone' = Append(stagesDone, "info1")
    /\ UNCHANGED <<others, gen, data, rows, checklist, alloc, saved, result>>

AccInfoRow2 ==
    /\ gen = "accident" /\ pc = "info2" /\ data.bad # "info2"
    /\ LET info_row2_h == InfoRow2Height(data)
       IN /\ current_y' = current_y - (info_row2_h + 2 * mm)
          /\ ys' = ys \cup {current_y - info_row2_h,
                            current_y - (info_row2_h + 2 * mm)}
          /\ pages' = pages + PageBreaks(current_y - info_row2_h)
    /\ pc' = "body"
    /\ stagesDone' = Append(stagesDone, "info2")
    /\ UNCHANGED <<others, gen, data, rows, checklist, alloc, saved, result>>

\* Body table: label column 35mm, rows 5:3:3:2 of a fixed 120mm.
label_col_width == 35 * mm
body_col_width == acc_content_width - label_col_width - 2 * pt
cause_text_width == Percent(body_col_width, 60)
available_height == 120 * mm
unit_height == available_height \div 13
body_row_heights == <<unit_height * 5, unit_height * 3, unit_height * 3, unit_height * 2>>
BodyHeight == body_row_heights[1] + body_row_heights[2]
              + body_row_heights[3] + body_row_heights[4]

\* Height of a paragraph in para_style (11pt on 15.4pt) of n characters.
AccTextHeight(n, width) == WrappedLines(n, width, 11 * pt) * Pt100(1540)

\* Position of checklist item i.
ItemY(first_item_y, item_spacing, i) == first_item_y - (i - 1) * item_spacing

\* ItemSpacing dividing by the number of items instead of the number of gaps
ItemSpacingByCount(first_item_y, last_item_y) == (first_item_y - last_item_y) \div NumItems

\* total_spacing / 11
ItemSpacing(first_item_y, last_item_y) == (first_item_y - last_item_y) \div (NumItems - 1)

\* The circles drawn with fill=1.
FilledCircles(selected) == {i \in 1..NumItems : i \in selected}

\* The checklist overlay of the accident report, drawn over the cause row.
AccChecklist(body_table_y, body_h, selected) ==
    LET cause_row_y_top == body_table_y + body_h - body_row_heights[1] - body_row_heights[2]
        cause_row_y_bottom == body_table_y + body_h - body_row_heights[1]
        checklist_cell_y == cause_row_y_bottom - 6 * pt
        font_height == Pt100(1540)
        line_spacing == 2 * mm
        instruction_y == checklist_cell_y - 3 * mm
        checklist_top == instruction_y - font_height - line_spacing - 3 * mm
        checklist_bottom == cause_row_y_bottom + 6 * pt
        vertical_padding == 3 * mm
        first_item_y == checklist_top - vertical_padding
        last_item_y == checklist_bottom + vertical_padding
        item_spacing == ItemSpacing(first_item_y, last_item_y)
    IN IF selected = {} THEN NoChecklist
       ELSE [drawn |-> TRUE,
             band_top |-> Max(cause_row_y_top, cause_row_y_bottom),
             band_bottom |-> Min(cause_row_y_top, cause_row_y_bottom),
             first_item_y |-> first_item_y, last_item_y |-> last_item_y,
             item_y |-> [i \in 1..NumItems |-> ItemY(first_item_y, item_spacing, i)],
             filled |-> FilledCircles(selected)]

AccBody ==
    /\ gen = "accident" /\ pc = "body" /\ data.bad # "body"
    /\ LET body_h == BodyHeight
           body_table_y == current_y - body_h
       IN /\ rows' = rows \cup
                {[field |-> "situation", row_h |-> body_row_heights[1],
                  text_h |-> AccTextHeight(data.situation, body_col_width - 12 * pt)],
                 [field |-> "cause", row_h |-> body_row_heights[2],
                  text_h |-> AccTextHeight(data.cause, cause_text_width)],
                 [field |-> "countermeasure", row_h |-> body_row_heights[3],
                  text_h |-> AccTextHeight(data.countermeasure, body_col_width - 12 * pt)],
                 [field |-> "others", row_h |-> body_row_heights[4],
                  text_h |-> AccTextHeight(data.others, body_col_width - 12 * pt)]}
          /\ alloc' = [done |-> TRUE, avail |-> current_y - acc_margin,
                       target |-> body_h, minimum |-> 0,
                       actual |-> body_h]
          /\ checklist' = AccChecklist(body_table_y, body_h, data.cause_indices)
          /\ current_y' = current_y - (body_h + 3 * mm)
          /\ ys' = ys \cup {body_table_y, current_y - (body_h + 3 * mm)}
          /\ pages' = pages + PageBreaks(body_table_y)
    /\ pc' = "footer"
    /\ stagesDone' = Append(stagesDone, "body")
    /\ UNCHANGED <<others, gen, data, saved, result>>

\* Footer: two text lines, date line, name line with underline and stamp.
AccFooter ==
    /\ gen = "accident" /\ pc = "footer" /\ data.bad # "footer"
    /\ LET footer_y1 == current_y - 8 * mm
           footer_y2 == footer_y1 - 8 * mm
           sign_area_y1 == footer_y2 - 15 * mm
           sign_area_y2 == sign_area_y1 - 20 * mm
       IN ys' = ys \cup {footer_y1, footer_y2, sign_area_y1, sign_area_y2,
                         sign_area_y2 - 2 * pt}
    /\ pc' = "save"
    /\ stagesDone' = Append(stagesDone, "footer")
    /\ UNCHANGED <<others, pages, gen, data, current_y, rows, checklist, alloc, saved, result>>

\* AccSave that leaves the canvas open, so that save runs a second time
AccSaveAgain ==
    /\ gen = "accident" /\ pc = "save" /\ data.bad # "save"
    /\ saved' = saved + 1
    /\ pages' = pages + 1
    /\ result' = "filename"
    /\ pc' = IF saved = 0 THEN "save" ELSE "done"
    /\ stagesDone' = Append(stagesDone, "save")
    /\ UNCHANGED <<others, gen, data, current_y, ys, rows, checklist, alloc>>

\* c.save(); return self.filename
AccSave ==
    /\ gen = "accident" /\ pc = "save" /\ data.bad # "save"
    /\ saved' = saved + 1
    /\ pages' = pages + 1
    /\ result' = "filename"
    /\ pc' = "done"
    /\ stagesDone' = Append(stagesDone, "save")
    /\ UNCHANGED <<others, gen, data, current_y, ys, rows, checklist, alloc>>

\* --------------------------------------------------- HiyariHattoGenerator
\* Height of a paragraph in para_style (10.5pt on 15.75pt) of n characters.
HiyTextHeight(n, width) == WrappedLines(n, width, Pt100(1050)) * Pt100(1575)

HiyBegin ==
    /\ gen = "hiyari" /\ pc = "begin"
    /\ current_y' = hiy_start_y
    /\ ys' = ys \cup {hiy_start_y}
    /\ pc' = "header"
    /\ stagesDone' = Append(stagesDone, "begin")
    /\ UNCHANGED <<others, pages, gen, data, rows, checklist, alloc, saved, result>>

\* Title and the reporter line.
HiyHeader ==
    /\ gen = "hiyari" /\ pc = "header" /\ data.bad # "header"
    /\ LET title_y == current_y - Mm10(106)
           y1 == title_y - Mm10(106)
           reporter_y == y1 - 2 * mm
       IN /\ current_y' = reporter_y - 3 * mm
          /\ ys' = ys \cup {title_y, y1, reporter_y, reporter_y - 1 * pt,
                            reporter_y - 3 * mm}
    /\ pc' = "summary"
    /\ stagesDone' = Append(stagesDone, "header")
    /\ UNCHANGED <<others, pages, gen, data, rows, checklist, alloc, saved, result>>

summary_row_heights == <<12 * mm, Mm10(265), Mm10(265)>>

\* Section title and the summary table (three rows of fixed height).
HiySummary ==
    /\ gen = "hiyari" /\ pc = "summary" /\ data.bad # "summary"
    /\ LET title_y == current_y - Mm10(66)
           y1 == title_y - 3 * mm
           summary_h == summary_row_heights[1] + summary_row_heights[2]
                        + summary_row_heights[3]
           summary_table_y == y1 - summary_h
       IN /\ rows' = rows \cup
                {[field |-> "location", row_h |-> summary_row_heights[2],
                  text_h |-> HiyTextHeight(data.location,
                                Percent(hiy_content_width, 60) - 10 * pt)],
                 [field |-> "context", row_h |-> summary_row_heights[2],
                  text_h |-> HiyTextHeight(data.context,
                                Percent(hiy_content_width, 18) - 10 * pt)],
                 [field |-> "details", row_h |-> summary_row_heights[3],
                  text_h |-> HiyTextHeight(data.details,
                                Percent(hiy_content_width, 88) - 10 * pt)]}
          /\ current_y' = summary_table_y - 5 * mm
          /\ ys' = ys \cup {title_y, y1, summary_table_y, summary_table_y - 5 * mm}
          /\ pages' = pages + PageBreaks(summary_table_y)
    /\ pc' = "cause"
    /\ stagesDone' = Append(stagesDone, "summary")
    /\ UNCHANGED <<others, gen, data, checklist, alloc, saved, result>>

\* Auto-sized header row of the cause table: each category label is one
\* unbroken word in a style without CJK wrapping, so one line of 9pt text
\* on the default 12pt leading, plus 5pt padding above and below.
CauseHeaderHeight == 12 * pt + 10 * pt

\* Section title and the cause table (header row + one 31.8mm data row).
HiyCause ==
    /\ gen = "hiyari" /\ pc = "cause" /\ data.bad # "cause"
    /\ LET title_y == current_y - Mm10(66)
           y1 == title_y - 3 * mm
           cause_h == CauseHeaderHeight + Mm10(318)
           cause_table_y == y1 - cause_h
       IN /\ rows' = rows \cup
                {[field |-> "cause", row_h |-> Mm10(318),
                  text_h |-> HiyTextHeight(data.cause,
                                hiy_content_width \div 4 - 10 * pt)]}
          /\ current_y' = cause_table_y - 5 * mm
          /\ ys' = ys \cup {title_y, y1, cause_table_y, cause_table_y - 5 * mm}
          /\ pages' = pages + PageBreaks(cause_table_y)
    /\ pc' = "countermeasure"
    /\ stagesDone' = Append(stagesDone, "cause")
    /\ UNCHANGED <<others, gen, data, checklist, alloc, saved, result>>

\* font_size_pt * 0.352778 with font_size_pt = 9.75 (a number of mm, used as points)
hiy_font_height == MulDiv(352778 * (pt \div 100), 975, 1000000)

\* 12 * (font_height + line_spacing) - line_spacing + 10 * mm
checklist_required_height ==
    LET line_spacing == Mm10(21)
    IN 12 * (hiy_font_height + line_spacing) - line_spacing + 10 * mm

\* TableHeight without the two clamps to remaining_height - 2mm
TableHeightUnclamped(remaining_height) == Max(106 * mm, checklist_required_height)

\* Height of the countermeasure table for a given remaining height.
TableHeight(remaining_height) ==
    LET target_table_height == Min(106 * mm, remaining_height - 2 * mm)
        table_height == Max(target_table_height, checklist_required_height)
    IN Min(table_height, remaining_height - 2 * mm)

\* The checklist overlay of the near-miss report, drawn in the right cell.
HiyChecklist(countermeasure_table_y, countermeasure_h, selected) ==
    LET checklist_cell_top == countermeasure_table_y + countermeasure_h - 10 * pt
        checklist_cell_bottom == countermeasure_table_y + 10 * pt
        vertical_padding == 3 * mm
        first_item_y == checklist_cell_top - vertical_padding
        last_item_y == checklist_cell_bottom + vertical_padding
        item_spacing == ItemSpacing(first_item_y, last_item_y)
    IN [drawn |-> TRUE,
        band_top |-> checklist_cell_top, band_bottom |-> checklist_cell_bottom,
        first_item_y |-> first_item_y, last_item_y |-> last_item_y,
        item_y |-> [i \in 1..NumItems |-> ItemY(first_item_y, item_spacing, i)],
        filled |-> FilledCircles(selected)]

\* Arrow, section title, the countermeasure table and its checklist.
HiyCountermeasure ==
    /\ gen = "hiyari" /\ pc = "countermeasure" /\ data.bad # "countermeasure"
    /\ LET arrow_y == current_y - 3 * mm
           title_y == arrow_y - 5 * mm - Mm10(66)
           y1 == title_y - 3 * mm
           remaining_height == y1 - margin_bottom
           table_height == TableHeight(remaining_height)
           countermeasure_h == table_height
           countermeasure_table_y == y1 - countermeasure_h
       IN /\ rows' = rows \cup
                {[field |-> "countermeasure", row_h |-> table_height,
                  text_h |-> HiyTextHeight(data.countermeasure,
                                Percent(hiy_content_width, 60) - 20 * pt)]}
          /\ alloc' = [done |-> TRUE, avail |-> remaining_height - 2 * mm,
                       target |-> 106 * mm,
                       minimum |-> checklist_required_height,
                       actual |-> table_height]
          /\ checklist' = HiyChecklist(countermeasure_table_y, countermeasure_h,
                                       data.cause_indices)
          /\ current_y' = y1
          /\ ys' = ys \cup {arrow_y, title_y, y1, countermeasure_table_y}
          /\ pages' = pages + PageBreaks(countermeasure_table_y)
    /\ pc' = "save"
    /\ stagesDone' = Append(stagesDone, "countermeasure")
    /\ UNCHANGED <<others, gen, data, saved, result>>

\* c.save(); return self.filename
HiySave ==
    /\ gen = "hiyari" /\ pc = "save" /\ data.bad # "save"
    /\ saved' = saved + 1
    /\ pages' = pages + 1
    /\ result' = "filename"
    /\ pc' = "done"
    /\ stagesDone' = Append(stagesDone, "save")
    /\ UNCHANGED <<others, gen, data, current_y, ys, rows, checklist, alloc>>

\* ------------------------------------------------------------- failure
\* Neither generate nor generate_report catches anything: an exception in a
\* block leaves the method at once, before c.save().
\* Raise with the exception caught inside the method, which then goes on to save
RaiseSwallowed ==
    /\ pc \in Blocks /\ data.bad = pc
    /\ pc' = "save"
    /\ UNCHANGED <<others, pages, gen, data, current_y, ys, rows, checklist, alloc,
                   stagesDone, saved, result>>

Raise ==
    /\ pc \in Blocks /\ data.bad = pc
    /\ pc' = "raised"
    /\ result' = "raised"
    /\ UNCHANGED <<others, pages, gen, data, current_y, ys, rows, checklist, alloc,
                   stagesDone, saved>>

Next ==
    \/ AccBegin \/ AccHeader \/ AccInfoRow1 \/ AccInfoRow2
    \/ AccBody \/ AccFooter \/ AccSave
    \/ HiyBegin \/ HiyHeader \/ HiySummary \/ HiyCause
    \/ HiyCountermeasure \/ HiySave
    \/ Raise

Spec == Init /\ [][Next]_vars

\* ================================================================ claims
IsPrefix(s, t) == Len(s) <= Len(t) /\ \A i \in 1..Len(s) : s[i] = t[i]

\* C1: in AccidentReportGenerator.generate every vertical position used for
\* a placement (current_y after each block, the footer and signature lines)
\* lies between the bottom margin and page_height - margin, for every record.
C1_CursorInBand ==
    gen = "accident" => \A y \in ys : acc_margin <= y /\ y <= page_height - acc_margin

\* C2: in generate_report the height of the countermeasure/checklist table is
\* at most remaining_height - 2mm, so the table's bottom edge is never below
\* margin_bottom and the remaining height stays >= 0.
C2_TableWithinRemaining ==
    (gen = "hiyari" /\ alloc.done) =>
        /\ alloc.actual <= alloc.avail
        /\ current_y - alloc.actual >= margin_bottom
        /\ (current_y - alloc.actual) \in ys

C2_Witness ==
    /\ gen = "hiyari" /\ pc = "done" /\ alloc.done
    /\ data.countermeasure = NarrativeCap
    /\ alloc.actual = alloc.avail

\* C3: a render of a 2,000-character narrative field that completes has kept
\* the wrapped text's height within the height of the row allotted to it.
C3_NarrativeFits ==
    (pc = "done" /\ result = "filename") => \A r \in rows : r.text_h <= r.row_h

\* C4: when the available height covers the minimum, the allocated height is
\* at least the minimum, and equals the target when the target fits and the
\* available height when it does not.
C4_BudgetPolicy ==
    (alloc.done /\ alloc.avail >= alloc.minimum) =>
        /\ alloc.actual >= alloc.minimum
        /\ alloc.actual = IF alloc.target <= alloc.avail THEN alloc.target
                          ELSE alloc.avail

\* C5: a render whose sections' minimum heights exceed the height available
\* to them never completes: it is reported as an error, not drawn.
C5_InfeasibleIsReported ==
    ~(pc = "done" /\ result = "filename" /\ alloc.done /\ alloc.avail < alloc.minimum)

\* C6: for every selection set S (the empty set included) a completed render
\* has drawn 12 checklist circles, circle i filled exactly when i is in S.
C6_TwelveCircles ==
    pc = "done" =>
        /\ checklist.drawn
        /\ Len(checklist.item_y) = NumItems
        /\ checklist.filled = data.cause_indices

\* C7: every checklist item lies inside its band, in top-down order, item 1
\* at first_item_y and item 12 at last_item_y with first_item_y >= last_item_y.
C7_ItemsInsideBand ==
    checklist.drawn =>
        /\ checklist.first_item_y >= checklist.last_item_y
        /\ checklist.item_y[1] = checklist.first_item_y
        /\ checklist.item_y[NumItems] = checklist.last_item_y
        /\ \A i \in 1..NumItems :
              /\ checklist.band_bottom <= checklist.item_y[i]
              /\ checklist.item_y[i] <= checklist.band_top
        /\ \A i \in 1..(NumItems - 1) : checklist.item_y[i] >= checklist.item_y[i + 1]

\* C8: the 12 checklist items are evenly spaced: the gap between consecutive
\* items is one value, 1/11 of first_item_y - last_item_y, starting at
\* first_item_y, in both generators.
C8_EvenSpacing ==
    checklist.drawn =>
        /\ checklist.item_y[1] = checklist.first_item_y
        /\ \A i \in 1..(NumItems - 2) :
              checklist.item_y[i] - checklist.item_y[i + 1]
                  = checklist.item_y[i + 1] - checklist.item_y[i + 2]
        /\ (NumItems - 1) * (checklist.item_y[1] - checklist.item_y[2])
              = checklist.first_item_y - checklist.last_item_y

C8_Witness ==
    /\ pc = "done" /\ checklist.drawn /\ Len(checklist.item_y) = NumItems
    /\ checklist.item_y[1] # checklist.item_y[2]
    /\ checklist.filled = {1, 6, 12}

\* C9: the blocks of a render run in the fixed order, none skipped or run
\* twice; the canvas is saved exactly once, after every block, and the call
\* then returns the file name.
C9_StrictOrder ==
    /\ IsPrefix(stagesDone, StageOrder(gen))
    /\ saved <= 1
    /\ (saved = 1) <=> (stagesDone = StageOrder(gen))
    /\ (saved = 1) <=> (pc = "done")
    /\ (result = "filename") <=> (pc = "done")

C9_Witness ==
    /\ pc = "done" /\ gen = "accident" /\ saved = 1 /\ result = "filename"
    /\ stagesDone = AccOrder

\* C10: when a block of a render raises, no later block runs, the canvas is
\* never saved, the failure reaches the caller and nothing is retried.
C10_FailureAborts ==
    (\E k \in 1..Len(StageOrder(gen)) : StageOrder(gen)[k] = data.bad) =>
        /\ saved = 0
        /\ result # "filename"
        /\ \A i \in 1..Len(stagesDone) : stagesDone[i] # data.bad
        /\ IsPrefix(stagesDone, StageOrder(gen))
        /\ (pc = "raised" => (result = "raised" /\ ~ENABLED Next))

C10_Witness ==
    /\ pc = "raised" /\ result = "raised" /\ data.bad = "body"
    /\ stagesDone = <<"begin", "header", "info1", "info2">>

\* ======================================================= column widths
\* colWidths of each table, named by the block that builds it; cause_inner is
\* the table nested in the second row of the accident body table.
ColWidths(table) ==
    CASE table = "info1" -> <<Percent(acc_content_width, 35), Percent(acc_content_width, 30),
                               Percent(acc_content_width, 35)>>
      [] table = "info2" -> <<Percent(acc_content_width, 40), Percent(acc_content_width, 30),
                               Percent(acc_content_width, 30)>>
      [] table = "body" -> <<label_col_width, body_col_width>>
      [] table = "cause_inner" -> <<cause_text_width, Percent(body_col_width, 40)>>
      [] table = "summary" -> <<Percent(hiy_content_width, 12), Percent(hiy_content_width, 60),
                                 Percent(hiy_content_width, 10), Percent(hiy_content_width, 18)>>
      [] table = "cause" -> <<hiy_content_width \div 4, hiy_content_width \div 4,
                               hiy_content_width \div 4, hiy_content_width \div 4>>
      [] table = "countermeasure" -> <<Percent(hiy_content_width, 60),
                                        Percent(hiy_content_width, 40)>>

\* Width of the region a table is placed in: the content width of its page,
\* or, for the nested table, the second body column less its LEFTPADDING
\* and RIGHTPADDING of 6 points each.
EnclosingWidth(table) ==
    IF table \in {"info1", "info2", "body"} THEN acc_content_width
    ELSE IF table = "cause_inner" THEN body_col_width - 12 * pt
    ELSE hiy_content_width

\* Tables built by a block.
TablesOf(stage) ==
    IF stage = "body" THEN {"body", "cause_inner"}
    ELSE IF stage \in {"info1", "info2", "summary", "cause", "countermeasure"} THEN {stage}
    ELSE {}

RECURSIVE SumSeq(_)
SumSeq(q) == IF q = <<>> THEN 0 ELSE Head(q) + SumSeq(Tail(q))

\* C21: the column widths of every table built so far sum exactly to the
\* width of the region enclosing it (content width, or inner width of the
\* parent cell for the nested cause table).
C21_ColumnWidthsFillRegion ==
    \A k \in 1..Len(stagesDone) :
        \A t \in TablesOf(stagesDone[k]) :
            SumSeq(ColWidths(t)) = EnclosingWidth(t)

\* C26: checklist_required_height is the height of 12 rows of 9.75pt text
\* with 2.1mm between them plus 10mm, all in points, and the table is never
\* shorter than that when the remaining height allows it.
C26_RequiredHeightInPoints ==
    (gen = "hiyari" /\ alloc.done) =>
        LET required == 12 * (Pt100(975) + Mm10(21)) - Mm10(21) + 10 * mm
        IN /\ alloc.minimum = required
           /\ alloc.actual >= Min(required, alloc.avail)

\* ======================================================= font resolution
\* Candidate files, the Hiragino file names written in Latin letters.
FontFiles == {"NotoSansJP-VariableFont_wght.ttf", "HiraginoMincho ProN.ttc",
              "HiraginoKakuGothic W5.ttc", "HiraginoKakuGothic W3.ttc"}

\* Ordered (font_name, font_path) candidates of each class and role.
mincho_fonts(cls) ==
    IF cls = "accident"
    THEN <<[name |-> "NotoSansJP", file |-> "NotoSansJP-VariableFont_wght.ttf"],
           [name |-> "HiraginoMincho", file |-> "HiraginoMincho ProN.ttc"]>>
    ELSE <<[name |-> "HiraginoMincho", file |-> "HiraginoMincho ProN.ttc"],
           [name |-> "NotoSansJP", file |-> "NotoSansJP-VariableFont_wght.ttf"]>>

gothic_fonts(cls) ==
    IF cls = "accident"
    THEN <<[name |-> "NotoGothic", file |-> "NotoSansJP-VariableFont_wght.ttf"],
           [name |-> "HiraginoGothic", file |-> "HiraginoKakuGothic W5.ttc"],
           [name |-> "HiraginoGothicW3", file |-> "HiraginoKakuGothic W3.ttc"]>>
    ELSE <<[name |-> "HiraginoGothic", file |-> "HiraginoKakuGothic W5.ttc"],
           [name |-> "HiraginoGothicW3", file |-> "HiraginoKakuGothic W3.ttc"],
           [name |-> "NotoGothic", file |-> "NotoSansJP-VariableFont_wght.ttf"]>>

\* A file is absent, present but rejected by TTFont ("broken"), or usable;
\* cid tells whether the two UnicodeCIDFont registrations succeed.
FontEnvs == [files : [FontFiles -> {"absent", "broken", "ok"}], cid : BOOLEAN]

\* for font_name, font_path in candidates: if os.path.exists: try register,
\* break on success, continue on exception. 0 when the loop ends unbroken.
FirstRegistered(candidates, env) ==
    LET okAt == {k \in 1..Len(candidates) : env.files[candidates[k].file] = "ok"}
    IN IF okAt = {} THEN 0 ELSE CHOOSE k \in okAt : \A j \in okAt : k <= j

\* __init__ of either class under the font environment env:
\* the attributes it leaves, the names it registers, whether it raises.
Construct(cls, env) ==
    LET m == FirstRegistered(mincho_fonts(cls), env)
        g == FirstRegistered(gothic_fonts(cls), env)
        font_registered == m # 0
        loop_reg == IF m # 0 THEN mincho_fonts(cls)[m].name ELSE "unbound"
        loop_bold == IF g # 0 THEN gothic_fonts(cls)[g].name ELSE "unbound"
        loop_names == (IF m # 0 THEN {loop_reg} ELSE {})
                      \cup (IF g # 0 THEN {loop_bold} ELSE {})
        loop_writes == (IF m # 0 THEN 1 ELSE 0) + (IF g # 0 THEN 1 ELSE 0)
        font_reg == IF font_registered THEN loop_reg
                    ELSE IF env.cid THEN "HeiseiMin-W3-Acro" ELSE "Helvetica"
        font_bold == IF font_registered THEN loop_bold
                     ELSE IF env.cid THEN "HeiseiKakuGo-W5-Acro" ELSE "Helvetica-Bold"
        cid_names == IF ~font_registered /\ env.cid
                     THEN {"HeiseiMin-W3-Acro", "HeiseiKakuGo-W5-Acro"} ELSE {}
    IN [cls |-> cls, font_reg |-> font_reg, font_bold |-> font_bold,
        \* setup_custom_styles reads self.font_reg and self.font_bold
        raised |-> (font_reg = "unbound" \/ font_bold = "unbound"),
        names |-> loop_names \cup cid_names,
        writes |-> loop_writes + (IF ~font_registered /\ env.cid THEN 2 ELSE 0)]

InitFonts ==
    /\ fontenv \in FontEnvs
    /\ registry = {}
    /\ reg_writes = 0
    /\ instances = <<>>
    /\ LayoutIdle /\ DateIdle /\ InputIdle /\ VtextIdle /\ RestIdle

NewGenerator(cls) ==
    /\ Len(instances) < MaxInstances
    /\ LET inst == Construct(cls, fontenv)
       IN /\ instances' = Append(instances, inst)
          /\ registry' = registry \cup inst.names
          /\ reg_writes' = reg_writes + inst.writes
    /\ UNCHANGED <<fontenv, layoutVars, dateVars, inputVars, vtextVars, appVars, fileVars, dmVars>>

NewAccidentReportGenerator == NewGenerator("accident")
NewHiyariHattoGenerator == NewGenerator("hiyari")

NextFonts == NewAccidentReportGenerator \/ NewHiyariHattoGenerator

SpecFonts == InitFonts /\ [][NextFonts]_vars

\* C14: constructing a generator never raises because of fonts and leaves
\* font_reg and font_bold bound, for every combination of font files.
C14_BothRolesBound ==
    \A i \in 1..Len(instances) :
        /\ ~instances[i].raised
        /\ instances[i].font_reg # "unbound"
        /\ instances[i].font_bold # "unbound"

\* C15: each role is bound to the first candidate of its list that exists
\* and registers; the fallback is used only when no candidate of either
\* role succeeds, and then for both roles.
C15_FirstUsableCandidate ==
    \A i \in 1..Len(instances) :
        LET cls == instances[i].cls
            m == FirstRegistered(mincho_fonts(cls), fontenv)
            g == FirstRegistered(gothic_fonts(cls), fontenv)
            fallback == {"HeiseiMin-W3-Acro", "HeiseiKakuGo-W5-Acro",
                         "Helvetica", "Helvetica-Bold"}
        IN /\ m # 0 => instances[i].font_reg = mincho_fonts(cls)[m].name
           /\ g # 0 => instances[i].font_bold = gothic_fonts(cls)[g].name
           /\ (instances[i].font_reg \in fallback \/ instances[i].font_bold \in fallback)
                 => (m = 0 /\ g = 0)
           /\ (m = 0 /\ g = 0)
                 => (instances[i].font_reg \in fallback /\ instances[i].font_bold \in fallback)

\* C16: the font registry is written only by the first construction; a
\* second or later generator performs no registerFont write.
C16_RegistryWrittenOnce ==
    \A i \in 2..Len(instances) : instances[i].writes = 0

\* ======================================================= dates
\* Calendar dates are records [year, month, day]; a date argument is a value
\* of one of the kinds a caller can pass, carrying the date it denotes.
IsLeap(y) == (y % 4 = 0) /\ ((y % 100 # 0) \/ (y % 400 = 0))

DaysInMonth(y, m) ==
    IF m = 2 THEN (IF IsLeap(y) THEN 29 ELSE 28)
    ELSE IF m \in {4, 6, 9, 11} THEN 30 ELSE 31

Dates ==
    {dt \in [year : FirstYear..LastYear, month : 1..12, day : 1..31] :
        dt.day <= DaysInMonth(dt.year, dt.month)}

NoDate == [year |-> 0, month |-> 0, day |-> 0]

RECURSIVE DaysBeforeMonth(_, _)
DaysBeforeMonth(y, m) ==
    IF m = 1 THEN 0 ELSE DaysBeforeMonth(y, m - 1) + DaysInMonth(y, m - 1)

\* date.toordinal() and date.weekday() (Monday is 0) of the standard library.
toordinal(dt) ==
    LET y == dt.year - 1
    IN y * 365 + (y \div 4) - (y \div 100) + (y \div 400)
       + DaysBeforeMonth(dt.year, dt.month) + dt.day

weekday(dt) == (toordinal(dt) + 6) % 7

NextDay(dt) ==
    IF dt.day < DaysInMonth(dt.year, dt.month) THEN [dt EXCEPT !.day = dt.day + 1]
    ELSE IF dt.month < 12 THEN [dt EXCEPT !.month = dt.month + 1, !.day = 1]
    ELSE [year |-> dt.year + 1, month |-> 1, day |-> 1]

\* datetime.now().date() when the wall clock stands c days after the day
\* the process started (a day before a leap day, so the clock crosses it).
ClockEpoch == [year |-> 2024, month |-> 2, day |-> 27]

RECURSIVE now(_)
now(c) == IF c = 0 THEN ClockEpoch ELSE NextDay(now(c - 1))

\* Label lists, romanised: getsu, ka, sui, moku, kin, do, nichi stand for the
\* characters for Monday .. Sunday in the source.
weekdays_sunday_first == <<"nichi", "getsu", "ka", "sui", "moku", "kin", "do">>
weekdays == <<"getsu", "ka", "sui", "moku", "kin", "do", "nichi">>
weekday_map == <<"getsu", "ka", "sui", "moku", "kin", "do", "nichi">>

\* date: datetime.date object; datetime: datetime.datetime object;
\* str_ymd: "YYYY-MM-DD"; str_ymdhms: "YYYY-MM-DD HH:MM:SS"; str_bad: any
\* other string; None, int: non-date objects; absent: key not in data.
DateKinds == {"date", "datetime", "str_ymd", "str_ymdhms"}
DateArgs ==
    [kind : DateKinds, value : Dates]
    \cup [kind : {"str_bad", "None", "int", "absent"}, value : {NoDate}]

DateResult(dt, labels) ==
    [raised |-> "none", date |-> dt, weekday |-> labels[weekday(dt) + 1]]

\* AccidentReportGenerator.format_date_for_report(date_obj)
format_date_for_report(arg, c) ==
    IF arg.kind \in {"str_ymd"} THEN DateResult(arg.value, weekdays)
    ELSE IF arg.kind \in {"str_ymdhms", "str_bad"} THEN DateResult(now(c), weekdays)
    ELSE IF arg.kind \in {"date", "datetime"} THEN DateResult(arg.value, weekdays)
    ELSE [raised |-> "AttributeError", date |-> NoDate, weekday |-> "none"]

\* The datetime handling of HiyariHattoGenerator.generate_report
generate_report_datetime(arg, c) ==
    IF arg.kind = "str_ymdhms" THEN DateResult(arg.value, weekday_map)
    ELSE IF arg.kind \in {"str_ymd", "str_bad"} THEN DateResult(now(c), weekday_map)
    ELSE IF arg.kind = "datetime" THEN DateResult(arg.value, weekday_map)
    ELSE DateResult(now(c), weekday_map)

InitDates ==
    /\ clock = 0
    /\ date_arg \in DateArgs
    /\ date_outs = <<>>
    /\ LayoutIdle /\ FontIdle /\ InputIdle /\ VtextIdle /\ RestIdle

FormatDateForReport ==
    /\ Len(date_outs) < MaxRenders
    /\ date_arg.kind # "absent"
    /\ date_outs' = Append(date_outs,
          [op |-> "format_date_for_report", at |-> clock,
           out |-> format_date_for_report(date_arg, clock)])
    /\ UNCHANGED <<clock, date_arg, layoutVars, fontVars, inputVars, vtextVars, appVars, fileVars, dmVars>>

GenerateReportDatetime ==
    /\ Len(date_outs) < MaxRenders
    /\ date_outs' = Append(date_outs,
          [op |-> "generate_report", at |-> clock,
           out |-> generate_report_datetime(date_arg, clock)])
    /\ UNCHANGED <<clock, date_arg, layoutVars, fontVars, inputVars, vtextVars, appVars, fileVars, dmVars>>

Tick ==
    /\ clock < MaxClock
    /\ clock' = clock + 1
    /\ UNCHANGED <<date_arg, date_outs, layoutVars, fontVars, inputVars, vtextVars, appVars, fileVars, dmVars>>

NextDates == FormatDateForReport \/ GenerateReportDatetime \/ Tick

SpecDates == InitDates /\ [][NextDates]_vars

\* Reference weekday of a calendar date, 0 = Monday, computed from the
\* Gregorian rule directly (month offsets), independently of toordinal.
ActualWeekday(dt) ==
    LET t == <<0, 3, 2, 5, 0, 3, 5, 1, 4, 6, 2, 4>>
        y == IF dt.month < 3 THEN dt.year - 1 ELSE dt.year
        sunday0 == (y + (y \div 4) - (y \div 100) + (y \div 400) + t[dt.month] + dt.day) % 7
    IN (sunday0 + 6) % 7

ActualLabel(dt) ==
    <<"getsu", "ka", "sui", "moku", "kin", "do", "nichi">>[ActualWeekday(dt) + 1]

\* C12: whatever value is given as the date, both operations return
\* normally; a value denoting a valid date is used unchanged, any other
\* value is replaced by the current date.
C12_DateNeverSurfaces ==
    \A i \in 1..Len(date_outs) :
        LET o == date_outs[i]
        IN /\ o.out.raised = "none"
           /\ date_arg.kind \in DateKinds => o.out.date = date_arg.value
           /\ date_arg.kind \notin DateKinds => o.out.date = now(o.at)

\* C17: two runs of the same operation on the same record draw the same
\* date and weekday, whatever the wall-clock time of each run.
C17_SameInputSameOutput ==
    \A i, j \in 1..Len(date_outs) :
        date_outs[i].op = date_outs[j].op => date_outs[i].out = date_outs[j].out

\* C19: the weekday label drawn for a date is the label of its actual
\* weekday (Monday getsu .. Sunday nichi), in format_date_for_report given
\* the date or its "YYYY-MM-DD" string and in generate_report given the
\* datetime or its "YYYY-MM-DD HH:MM:SS" string.
C19_WeekdayLabel ==
    \A i \in 1..Len(date_outs) :
        LET o == date_outs[i]
            given == \/ o.op = "format_date_for_report"
                        /\ date_arg.kind \in {"date", "datetime", "str_ymd"}
                     \/ o.op = "generate_report"
                        /\ date_arg.kind \in {"datetime", "str_ymdhms"}
        IN /\ o.out.raised = "none" => o.out.weekday = ActualLabel(o.out.date)
           /\ given => (o.out.raised = "none" /\ o.out.date = date_arg.value)
           /\ (given /\ date_arg.value = [year |-> 2024, month |-> 1, day |-> 21])
                 => o.out.weekday = "nichi"
           /\ (given /\ date_arg.value = [year |-> 2024, month |-> 1, day |-> 15])
                 => o.out.weekday = "getsu"

C19_Witness ==
    /\ date_arg = [kind |-> "datetime", value |-> [year |-> 2024, month |-> 1, day |-> 15]]
    /\ Len(date_outs) = 2
    /\ date_outs[1].op = "format_date_for_report"
    /\ date_outs[2].op = "generate_report"
    /\ date_outs[1].out.weekday = "getsu" /\ date_outs[2].out.weekday = "getsu"

\* ======================================================= vertical text
char_spacing == px_to_mm(5)

\* Calls of draw_vertical_text: a label of len characters in a cell whose
\* lower edge is y; char_width is stringWidth of one character (the font
\* size for a full-width character, half of it for a half-width one).
VtextInputs ==
    {v \in [len : 1..MaxTextLen, font_size : {9 * pt, 12 * pt},
            y : {0, 100 * mm}, height : {20 * mm, 40 * mm, 60 * mm},
            char_width : {9 * pt, 12 * pt, (9 * pt) \div 2, (12 * pt) \div 2}] :
        v.char_width \in {v.font_size, v.font_size \div 2}}

\* The i-th character (0-based, as enumerate counts) as drawn: the origin is
\* translated to (center_x, char_y) and rotated by 90 degrees, so the text
\* direction is the page's upward direction and drawString(-char_width/2, 0)
\* puts the glyph's advance on the page from char_y - char_width/2 (lower
\* edge) to char_y + char_width/2 (upper edge).
DrawnChar(v, i) ==
    LET center_y == v.y + v.height \div 2
        total_height == v.len * (v.font_size + char_spacing) - char_spacing
        start_y == center_y + total_height \div 2 - v.font_size
        char_y == start_y - i * (v.font_size + char_spacing)
    IN [index |-> i + 1, char_y |-> char_y,
        upper |-> char_y + v.char_width \div 2,
        lower |-> char_y - v.char_width \div 2]

InitVertical ==
    /\ vtext \in VtextInputs
    /\ vchars = <<>>
    /\ LayoutIdle /\ FontIdle /\ DateIdle /\ InputIdle /\ RestIdle

draw_vertical_text ==
    /\ vchars = <<>>
    /\ vchars' = [k \in 1..vtext.len |-> DrawnChar(vtext, k - 1)]
    /\ UNCHANGED <<vtext, layoutVars, fontVars, dateVars, inputVars, appVars, fileVars, dmVars>>

NextVertical == draw_vertical_text

SpecVertical == InitVertical /\ [][NextVertical]_vars

AccFields == {"facility_name", "report_content", "record_date_year", "record_date",
              "time_min", "subject_name", "situation", "cause", "category",
              "countermeasure", "category_index", "cause_indices"}
HiyFields == {"datetime", "location", "context", "details", "cause_environment",
              "cause_self", "countermeasure", "category_index", "cause_indices"}

PresentValues(f) ==
    IF f = "cause_indices"
    THEN {"list_empty", "list_1_12", "list_mixed", "None", "int_5", "str_5"}
    ELSE IF f = "category_index" THEN {"0", "2"}
    ELSE IF f = "datetime" THEN {"datetime", ""}
    ELSE IF f = "record_date" THEN {"nen_text"}
    ELSE IF f = "time_min" THEN {"5"}
    ELSE {"text"}

Opt(f) == PresentValues(f) \cup {"absent"}

Calls ==
    [gen : {"accident"},
     fields : [facility_name : Opt("facility_name"), report_content : Opt("report_content"),
               record_date_year : Opt("record_date_year"), record_date : Opt("record_date"),
               time_min : Opt("time_min"), subject_name : Opt("subject_name"),
               situation : Opt("situation"), cause : Opt("cause"),
               category : Opt("category"), countermeasure : Opt("countermeasure"),
               category_index : Opt("category_index"),
               cause_indices : Opt("cause_indices")]]
    \cup
    [gen : {"hiyari"},
     fields : [datetime : Opt("datetime"), location : Opt("location"),
               context : Opt("context"), details : Opt("details"),
               cause_environment : Opt("cause_environment"),
               cause_self : Opt("cause_self"), countermeasure : Opt("countermeasure"),
               category_index : Opt("category_index"),
               cause_indices : Opt("cause_indices")]]

\* data.get(f) with no default: what every read would yield for an absent
\* field if the second argument were missing.
DefaultUnset(g, f) == "None"

\* The second argument of data.get for field f in generator g.
Default(g, f) ==
    IF f = "cause_indices" THEN "list_empty"
    ELSE IF f = "category_index" THEN "-1"
    ELSE IF f \in {"datetime", "record_date"} THEN "None"
    ELSE ""

Truthy(v) == v \notin {"", "None", "list_empty"}

\* {i in 1..12 : i in v}; evaluating `i in v` raises TypeError unless v is a list.
SelectedItems(v) ==
    IF v = "list_1_12" THEN {1, 12}
    ELSE IF v = "list_mixed" THEN {3, 12}
    ELSE {}

Unrendered(error) ==
    [raised |-> error, text |-> <<>>, category_shown |-> FALSE,
     date |-> "none", checklist_drawn |-> FALSE, filled |-> {}]

\* What generate draws for the mapping c (values in reading order of the code).
RenderAccident(c) ==
    LET e(f) == IF c.fields[f] = "absent" THEN Default("accident", f) ELSE c.fields[f]
        record_year == IF Truthy(e("record_date_year")) THEN e("record_date_year")
                       ELSE IF e("record_date") = "nen_text" THEN "2024"
                       ELSE e("record_date_year")
        report_content == IF Truthy(e("report_content")) THEN e("report_content") ELSE ""
        time_min_formatted == IF e("time_min") = "5" THEN "05" ELSE ""
        sel == e("cause_indices")
    IN IF e("situation") = "None" \/ e("countermeasure") = "None"
       THEN Unrendered("AttributeError")
       ELSE IF Truthy(e("category")) /\ e("category_index") = "None"
       THEN Unrendered("TypeError")
       ELSE IF Truthy(sel) /\ sel \in {"int_5", "str_5"}
       THEN Unrendered("TypeError")
       ELSE [raised |-> "none",
             text |-> <<e("facility_name"), report_content, record_year,
                        time_min_formatted, e("subject_name"), e("situation"),
                        e("cause"), e("countermeasure")>>,
             category_shown |-> (Truthy(e("category")) /\ e("category_index") \in {"0", "2"}),
             date |-> "none",
             checklist_drawn |-> Truthy(sel),
             filled |-> IF Truthy(sel) THEN SelectedItems(sel) ELSE {}]

\* What generate_report draws for the mapping c.
RenderHiyari(c) ==
    LET e(f) == IF c.fields[f] = "absent" THEN Default("hiyari", f) ELSE c.fields[f]
        sel == e("cause_indices")
    IN IF \E f \in {"location", "context", "details", "cause_environment",
                     "cause_self", "countermeasure"} : e(f) = "None"
       THEN Unrendered("AttributeError")
       ELSE IF sel \in {"None", "int_5", "str_5"}
       THEN Unrendered("TypeError")
       ELSE [raised |-> "none",
             text |-> <<e("location"), e("context"), e("details"),
                        e("cause_environment"), e("cause_self"), e("countermeasure")>>,
             category_shown |-> FALSE,
             date |-> IF e("datetime") = "datetime" THEN "given" ELSE "now",
             checklist_drawn |-> TRUE,
             filled |-> SelectedItems(sel)]

InitInput ==
    /\ call \in Calls
    /\ outcome = <<>>
    /\ LayoutIdle /\ FontIdle /\ DateIdle /\ VtextIdle /\ RestIdle

GenerateFromMapping ==
    /\ outcome = <<>>
    /\ call.gen = "accident"
    /\ outcome' = <<RenderAccident(call)>>
    /\ UNCHANGED <<call, layoutVars, fontVars, dateVars, vtextVars, appVars, fileVars, dmVars>>

GenerateReportFromMapping ==
    /\ outcome = <<>>
    /\ call.gen = "hiyari"
    /\ outcome' = <<RenderHiyari(call)>>
    /\ UNCHANGED <<call, layoutVars, fontVars, dateVars, vtextVars, appVars, fileVars, dmVars>>

NextInput == GenerateFromMapping \/ GenerateReportFromMapping

SpecInput == InitInput /\ [][NextInput]_vars

\* The same mapping with every absent field given explicitly: the empty
\* string, the empty list, and index for category_index.
GivenExplicitly(c, index) ==
    [c EXCEPT !.fields = [f \in DOMAIN c.fields |->
        IF c.fields[f] # "absent" THEN c.fields[f]
        ELSE IF f = "cause_indices" THEN "list_empty"
        ELSE IF f = "category_index" THEN index
        ELSE ""]]

RenderOf(c) == IF c.gen = "accident" THEN RenderAccident(c) ELSE RenderHiyari(c)

DocumentedValues ==
    call.fields["cause_indices"] \in {"absent", "list_empty", "list_1_12"}

\* C11 (as stated): whichever fields are absent, the render completes and
\* draws what it draws when they are given as the empty string, zero and
\* the empty list.
C11_AbsentAsEmptyOrZero ==
    (outcome # <<>> /\ DocumentedValues) =>
        /\ outcome[1].raised = "none"
        /\ outcome[1] = RenderOf(GivenExplicitly(call, "0"))

\* C11 (amended): whichever fields are absent, the render completes and
\* draws what it draws when text fields are given as the empty string, the
\* selection as the empty list and category_index as -1 (no category).
C11_AbsentAsDefault ==
    (outcome # <<>> /\ DocumentedValues) =>
        /\ outcome[1].raised = "none"
        /\ outcome[1] = RenderOf(GivenExplicitly(call, "-1"))

C11_Witness ==
    /\ outcome # <<>>
    /\ call.gen = "accident"
    /\ \A f \in AccFields : call.fields[f] = IF f = "category" THEN "text" ELSE "absent"
    /\ outcome[1].raised = "none"
    /\ ~outcome[1].category_shown

\* C13: whatever is given as cause_indices, the render completes and the
\* filled circles are exactly the integers of 1..12 among its elements.
C13_SelectionNeverSurfaces ==
    outcome # <<>> =>
        /\ outcome[1].raised = "none"
        /\ outcome[1].filled =
              (CASE call.fields["cause_indices"] = "list_1_12" -> {1, 12}
                 [] call.fields["cause_indices"] = "list_mixed" -> {3, 12}
                 [] OTHER -> {})

\* ======================================================= field formatting
\* Strings are sequences of characters. "T" stands for the full-width comma,
\* "NL" for the newline; "a" and "b" are letters of a name.
SubjectChars == {"a", "b", ",", "NL", "T", " "}
Whitespace == {" ", "NL"}
NameSet == {<<"a">>, <<"b">>, <<"a", "b">>}

SeqsUpTo(S, n) == UNION {[1..k -> S] : k \in 0..n}

\* A call to format one field: the subject name (a string or a list of
\* names), the minute (int, string or absent) or the 12-hour time of the
\* near-miss form (kind is the am/pm choice: gozen or gogo).
FieldCalls ==
    [op : {"subject_name"}, kind : {"str"}, names : {<<>>},
     text : SeqsUpTo(SubjectChars \ {"b"}, MaxSubjectLen), hour : {0}, minute : {0}]
    \cup [op : {"subject_name"}, kind : {"list"}, names : SeqsUpTo(NameSet, MaxNames),
          text : {<<>>}, hour : {0}, minute : {0}]
    \cup [op : {"time_min"}, kind : {"int", "str", "str_zfill", "absent"}, names : {<<>>},
          text : {<<>>}, hour : {0}, minute : 0..59]
    \cup [op : {"time12"}, kind : {"gozen"}, names : {<<>>},
          text : {<<>>}, hour : 0..11, minute : 0..59]
    \cup [op : {"time12"}, kind : {"gogo"}, names : {<<>>},
          text : {<<>>}, hour : 1..12, minute : 0..59]

\* str.replace of one character by another
ReplaceChar(q, from, to) == [i \in DOMAIN q |-> IF q[i] = from THEN to ELSE q[i]]

\* str.replace("TT", "T"): one pass, left to right, non-overlapping
RECURSIVE ReplacePairs(_)
ReplacePairs(q) ==
    IF Len(q) < 2 THEN q
    ELSE IF q[1] = "T" /\ q[2] = "T" THEN <<"T">> \o ReplacePairs(Tail(Tail(q)))
    ELSE <<q[1]>> \o ReplacePairs(Tail(q))

RECURSIVE Strip(_, _)
Strip(q, chars) ==
    IF q = <<>> THEN q
    ELSE IF q[1] \in chars THEN Strip(Tail(q), chars)
    ELSE IF q[Len(q)] \in chars THEN Strip(SubSeq(q, 1, Len(q) - 1), chars)
    ELSE q

\* The normalisation of a subject_name string in generate
RECURSIVE CollapseAndStrip(_)
CollapseAndStrip(q) ==
    IF \E i \in 1..(Len(q) - 1) : q[i] = "T" /\ q[i + 1] = "T"
    THEN CollapseAndStrip(ReplacePairs(q))
    ELSE Strip(Strip(q, {"T"}), Whitespace)

NormaliseSubject(q) == CollapseAndStrip(ReplaceChar(ReplaceChar(q, "NL", "T"), ",", "T"))

\* sep.join(names)
RECURSIVE Join(_, _)
Join(names, sep) ==
    IF names = <<>> THEN <<>>
    ELSE IF Len(names) = 1 THEN names[1]
    ELSE names[1] \o sep \o Join(Tail(names), sep)

\* str(list of str): ['a', 'b']
StrOfList(names) ==
    <<"[">> \o Join([i \in DOMAIN names |-> <<"'">> \o names[i] \o <<"'">>], <<",", " ">>)
    \o <<"]">>

\* subject_name = str(data.get("subject_name", "")) followed by the list
\* branch (never taken after str) and the string branch
subject_text(c) ==
    NormaliseSubject(IF c.kind = "list" THEN StrOfList(c.names) ELSE c.text)

\* subject_name_str of the form handler in app.py
subject_name_str(c) ==
    IF c.kind = "list" THEN Join(c.names, <<"T">>) ELSE c.text

Digit(d) == <<"0", "1", "2", "3", "4", "5", "6", "7", "8", "9">>[d + 1]
StrInt(n) == IF n < 10 THEN <<Digit(n)>> ELSE <<Digit(n \div 10), Digit(n % 10)>>
zfill2(q) == IF Len(q) < 2 THEN <<"0">> \o q ELSE q

\* time_min_formatted for time_min given as kind (the value is c.minute)
time_min_formatted(kind, minute) ==
    IF kind = "absent" THEN <<>>
    ELSE IF kind = "int" THEN (IF minute = 0 THEN <<>> ELSE zfill2(StrInt(minute)))
    ELSE zfill2(StrInt(minute))

\* hour_24 of the near-miss form handler in app.py
hour_24(am_pm, hour) ==
    IF am_pm = "gogo" THEN (IF hour < 12 THEN hour + 12 ELSE hour)
    ELSE (IF hour = 12 THEN 0 ELSE hour)

\* strftime("%H:%M") and the value strptime reads back from it
strftime_HM(h, m) == <<zfill2(StrInt(h)), zfill2(StrInt(m))>>
IntOf(q) ==
    LET v(ch) == CHOOSE d \in 0..9 : Digit(d) = ch
    IN IF Len(q) = 1 THEN v(q[1]) ELSE 10 * v(q[1]) + v(q[2])

\* am_pm, hour and minute as generate_report prints them for a datetime string
printed_time(hm) ==
    LET dt_hour == IntOf(hm[1])
        dt_minute == IntOf(hm[2])
    IN [am_pm |-> IF dt_hour < 12 THEN "gozen" ELSE "gogo",
        hour |-> IF dt_hour % 12 # 0 THEN dt_hour % 12 ELSE 12,
        minute |-> zfill2(StrInt(dt_minute))]

NoTime == [am_pm |-> "none", hour |-> 0, minute |-> <<>>]

InitFields ==
    /\ call \in FieldCalls
    /\ outcome = <<>>
    /\ LayoutIdle /\ FontIdle /\ DateIdle /\ VtextIdle /\ RestIdle

\* generate called with the value as it is
GenerateSubjectName ==
    /\ outcome = <<>> /\ call.op = "subject_name"
    /\ outcome' = <<[via |-> "generate", printed |-> subject_text(call), time |-> NoTime]>>
    /\ UNCHANGED <<call, layoutVars, fontVars, dateVars, vtextVars, appVars, fileVars, dmVars>>

\* the accident form handler of app.py, then generate
SubmitSubjectName ==
    /\ outcome = <<>> /\ call.op = "subject_name"
    /\ outcome' = <<[via |-> "form",
                     printed |-> NormaliseSubject(subject_name_str(call)), time |-> NoTime]>>
    /\ UNCHANGED <<call, layoutVars, fontVars, dateVars, vtextVars, appVars, fileVars, dmVars>>

GenerateTimeMin ==
    /\ outcome = <<>> /\ call.op = "time_min"
    /\ outcome' = <<[via |-> "generate",
                     printed |-> time_min_formatted(call.kind, call.minute), time |-> NoTime]>>
    /\ UNCHANGED <<call, layoutVars, fontVars, dateVars, vtextVars, appVars, fileVars, dmVars>>

\* "time_min": str(incident_time_min).zfill(2) in app.py, then generate
SubmitTimeMin ==
    /\ outcome = <<>> /\ call.op = "time_min" /\ call.kind = "int"
    /\ outcome' = <<[via |-> "form",
                     printed |-> time_min_formatted("str_zfill", call.minute), time |-> NoTime]>>
    /\ UNCHANGED <<call, layoutVars, fontVars, dateVars, vtextVars, appVars, fileVars, dmVars>>

\* the near-miss form handler of app.py, then generate_report
SubmitTime12 ==
    /\ outcome = <<>> /\ call.op = "time12"
    /\ outcome' = <<[via |-> "form", printed |-> <<>>,
                     time |-> printed_time(strftime_HM(hour_24(call.kind, call.hour),
                                                       call.minute))]>>
    /\ UNCHANGED <<call, layoutVars, fontVars, dateVars, vtextVars, appVars, fileVars, dmVars>>

NextFields ==
    \/ GenerateSubjectName \/ SubmitSubjectName
    \/ GenerateTimeMin \/ SubmitTimeMin \/ SubmitTime12

SpecFields == InitFields /\ [][NextFields]_vars

\* C22: a subject_name given as a list of names is printed as the names
\* joined by the full-width comma and nothing else, the same text as for
\* the already joined string.
C22_ListJoinedByTouten ==
    (outcome # <<>> /\ call.op = "subject_name" /\ call.kind = "list"
        /\ Len(call.names) >= 2) =>
        /\ outcome[1].printed = Join(call.names, <<"T">>)
        /\ outcome[1].printed = NormaliseSubject(Join(call.names, <<"T">>))

\* C23: the normalised subject name neither starts nor ends with the
\* full-width comma or whitespace, holds no two consecutive full-width
\* commas, and is a fixed point of the normalisation.
C23_NormalisedForm ==
    (outcome # <<>> /\ call.op = "subject_name" /\ call.kind = "str") =>
        LET r == outcome[1].printed
        IN /\ r # <<>> => (r[1] \notin Whitespace \cup {"T"}
                            /\ r[Len(r)] \notin Whitespace \cup {"T"})
           /\ \A i \in 1..(Len(r) - 1) : ~(r[i] = "T" /\ r[i + 1] = "T")
           /\ NormaliseSubject(r) = r

\* C24: the minute is printed as exactly two digits for every value 0..59
\* given as an integer or as a string, and empty only when it is absent.
C24_MinuteTwoDigits ==
    (outcome # <<>> /\ call.op = "time_min") =>
        outcome[1].printed =
            IF call.kind = "absent" THEN <<>>
            ELSE <<Digit(call.minute \div 10), Digit(call.minute % 10)>>

\* C25: the am/pm choice, hour and minute entered in the near-miss form are
\* the ones printed after the conversion to a 24-hour datetime and back.
C25_TwelveHourRoundTrip ==
    (outcome # <<>> /\ call.op = "time12") =>
        /\ outcome[1].time.am_pm = call.kind
        /\ outcome[1].time.hour = call.hour
        /\ IntOf(outcome[1].time.minute) = call.minute

\* ======================================================= download block
\* session is the type of st.session_state["pdf_generate_data"], or
\* "absent" when the key is not in the session state; tmpfiles counts the
\* files made by NamedTemporaryFile(delete=False) that still exist; renders
\* counts the calls of generate / generate_report made by the block.
InitApp ==
    /\ session = "absent"
    /\ tmpfiles = 0
    /\ submissions = 0
    /\ renders = 0
    /\ last_block = "none"
    /\ LayoutIdle /\ FontIdle /\ DateIdle /\ InputIdle /\ VtextIdle
    /\ FileIdle /\ DmIdle

\* The form handler stores a request (accident: 2331, near-miss: 2531).
SubmitReport(type) ==
    /\ submissions < MaxSubmissions
    /\ session' = type
    /\ submissions' = submissions + 1
    /\ last_block' = "pending"
    /\ UNCHANGED <<tmpfiles, renders, layoutVars, fontVars, dateVars, inputVars,
                   vtextVars, fileVars, dmVars>>

SubmitAccidentReport == SubmitReport("accident")
SubmitHiyariReport == SubmitReport("hiyari")

\* An except handler that reports the error and leaves the request
SessionKeptOnExcept(s) == s

\* The except handler: if "pdf_generate_data" in st.session_state: del
SessionAfterExcept(s) == "absent"

\* Ways the try block can end: normally, or with an exception raised by
\* NamedTemporaryFile, by the generator (constructor or render), or by
\* reading the file and offering it.
BlockResults == {"ok", "create_raised", "generate_raised", "read_raised"}

\* The block `if "pdf_generate_data" in st.session_state:` from its first to
\* its last line. os.unlink is reached only when nothing raised before it.
DownloadBlock ==
    /\ session # "absent"
    /\ \E r \in BlockResults :
          /\ tmpfiles' = tmpfiles + (IF r \in {"generate_raised", "read_raised"} THEN 1 ELSE 0)
          /\ renders' = renders + (IF r = "create_raised" THEN 0 ELSE 1)
          /\ session' = IF r = "ok" THEN "absent" ELSE SessionAfterExcept(session)
          /\ last_block' = r
    /\ UNCHANGED <<submissions, layoutVars, fontVars, dateVars, inputVars,
                   vtextVars, fileVars, dmVars>>

\* A rerun of the script with no request in the session state
DownloadBlockSkipped ==
    /\ session = "absent"
    /\ last_block' = "skipped"
    /\ UNCHANGED <<session, tmpfiles, submissions, renders, layoutVars, fontVars,
                   dateVars, inputVars, vtextVars, fileVars, dmVars>>

NextApp ==
    \/ SubmitAccidentReport \/ SubmitHiyariReport
    \/ DownloadBlock \/ DownloadBlockSkipped

SpecApp == InitApp /\ [][NextApp]_vars

\* C27: when the download block has run, the request is gone from the
\* session state, whether generation succeeded or raised, and no request is
\* rendered more often than it was submitted.
C27_ConsumedOnce ==
    /\ last_block \in BlockResults => session = "absent"
    /\ renders <= submissions

C27_Witness ==
    /\ last_block = "generate_raised"
    /\ session = "absent"
    /\ submissions = 1 /\ renders = 1

\* C28: when the download block has ended, on any path, no temporary file
\* it created remains.
C28_NoTempFileRemains ==
    last_block \in BlockResults => tmpfiles = 0

\* ======================================================= output file
Filenames == {"a.pdf", "b.pdf", "c.pdf"}

\* HiyariHattoGenerator(filename): self.filename = filename
InitFile ==
    /\ init_filename \in Filenames
    /\ self_filename = init_filename
    /\ file_calls = <<>>
    /\ LayoutIdle /\ FontIdle /\ DateIdle /\ InputIdle /\ VtextIdle
    /\ AppIdle /\ DmIdle

\* generate_report(data, filename) on the instance; "None" is the call
\* without the filename argument. The canvas is opened on self.filename,
\* saved, and self.filename is returned.
GenerateReportTo ==
    /\ Len(file_calls) < MaxFileCalls
    /\ \E filename \in Filenames \cup {"None"} :
          LET target == IF filename # "None" THEN filename ELSE self_filename
          IN /\ self_filename' = target
             /\ file_calls' = Append(file_calls,
                   [filename |-> filename, written |-> target, returned |-> target])
    /\ UNCHANGED <<init_filename, layoutVars, fontVars, dateVars, inputVars,
                   vtextVars, appVars, dmVars>>

NextFile == GenerateReportTo

SpecFile == InitFile /\ [][NextFile]_vars

\* C29: every call writes to and returns its filename argument, and a call
\* without the argument writes to and returns the filename the generator
\* was constructed with, whatever calls came before.
C29_FilenameArgument ==
    \A i \in 1..Len(file_calls) :
        LET expected == IF file_calls[i].filename # "None"
                        THEN file_calls[i].filename ELSE init_filename
        IN file_calls[i].written = expected /\ file_calls[i].returned = expected

\* ======================================================= user master
\* The master file holds a list of user records; a record is its id and its
\* active flag. Ids are unique when the master is first loaded.
UserIds == 1..MaxUsers
Masters ==
    {m \in SeqsUpTo([id : UserIds, active : BOOLEAN], MaxUsers) :
        \A i, j \in 1..Len(m) : i # j => m[i].id # m[j].id}

InitDm ==
    /\ master \in Masters
    /\ master_before = <<>>
    /\ user_ids = <<>>
    /\ LayoutIdle /\ FontIdle /\ DateIdle /\ InputIdle /\ VtextIdle
    /\ AppIdle /\ FileIdle

\* DataManager.sort_users(ids) on local storage. user_dict keeps the last
\* record of each id; the unlisted ids come out of a set, in any order.
sort_users ==
    \E ids \in SeqsUpTo(1..(MaxUsers + 1), MaxIdsLen) :
        LET keys == {master[i].id : i \in 1..Len(master)}
            user_dict == [k \in keys |->
                master[CHOOSE i \in 1..Len(master) :
                    master[i].id = k /\ \A j \in 1..Len(master) : master[j].id = k => j <= i]]
            IsKnown(uid) == uid \in keys
            listed == SelectSeq(ids, IsKnown)
            sorted_users == [i \in 1..Len(listed) |-> user_dict[listed[i]]]
            remaining_ids == keys \ {ids[i] : i \in 1..Len(ids)}
            IsActive(u) == u.active
            IsInactive(u) == ~u.active
        IN \E order \in {f \in [1..Cardinality(remaining_ids) -> remaining_ids] :
                              \A i, j \in DOMAIN f : i # j => f[i] # f[j]} :
              LET remaining_users == [i \in DOMAIN order |-> user_dict[order[i]]]
              IN /\ master' = sorted_users \o SelectSeq(remaining_users, IsActive)
                                \o SelectSeq(remaining_users, IsInactive)
                 /\ master_before' = master
                 /\ user_ids' = ids
                 /\ UNCHANGED <<layoutVars, fontVars, dateVars, inputVars, vtextVars,
                                appVars, fileVars>>

NextDm == sort_users

SpecDm == InitDm /\ [][NextDm]_vars

\* C30: after sort_users the stored master holds exactly the records it
\* held before, each once, with the listed ids first in the given order,
\* then the unlisted active users, then the unlisted inactive users.
C30_OnlyReorders ==
    master_before # <<>> =>
        LET listedSet == {user_ids[i] : i \in 1..Len(user_ids)}
            FirstAt(uid) == CHOOSE i \in 1..Len(user_ids) :
                               user_ids[i] = uid /\ \A j \in 1..(i - 1) : user_ids[j] # uid
            Group(u) == IF u.id \in listedSet THEN 0 ELSE IF u.active THEN 1 ELSE 2
        IN /\ Len(master) = Len(master_before)
           /\ \A i \in 1..Len(master_before) :
                 Cardinality({j \in 1..Len(master) : master[j] = master_before[i]}) = 1
           /\ \A i, j \in 1..Len(master) :
                 i < j => /\ Group(master[i]) <= Group(master[j])
                          /\ (Group(master[i]) = 0 /\ Group(master[j]) = 0)
                                => FirstAt(master[i].id) < FirstAt(master[j].id)

\* C20: every successful render has produced exactly one page, whatever the
\* length of the input text; no block ever starts a second page.
C20_OnePage ==
    /\ pages <= 1
    /\ (pc = "done" /\ result = "filename") => pages = 1
    /\ pc \notin {"done", "idle"} => pages = 0

C20_Witness ==
    /\ pc = "done" /\ result = "filename" /\ pages = 1
    /\ gen = "accident" /\ data.report_content = NarrativeCap
    /\ \E y \in ys : y < 0

====
